---- MODULE Spec2Model ----
(***************************************************************************)
(* Model of src/scene.py: the TungstenScene export session (document,      *)
(* material and image caches, working directory) and the W_OT_export       *)
(* operator that drives it.                                                *)
(*                                                                         *)
(* Python dicts are functions with a finite domain of strings, lists are   *)
(* sequences, None is the record None.  A call that raises leaves          *)
(* ok = FALSE in the session value it returns; the code after the raise    *)
(* point is skipped, exactly as the exception skips it.                    *)
(***************************************************************************)
EXTENDS Integers, Sequences, FiniteSets, TLC

(***************************************************************************)
(* Bounds                                                                  *)
(***************************************************************************)
\* longest primitives list a session may build
MaxPrims == 2
\* number of raising calls in one behaviour
MaxFaults == 1
\* number of method calls on the session in the specification of the whole API
MaxCalls == 2
\* longest object list of a host scene given to add_all
MaxObjs == 2

(***************************************************************************)
(* Python values                                                           *)
(***************************************************************************)
None == [py_none |-> TRUE]

EmptyDict == [k \in {} |-> TRUE]

\* d[k] = v
Put(d, k, v) == [x \in DOMAIN d \cup {k} |-> IF x = k THEN v ELSE d[x]]

\* an update in which the keys already present keep their values
Update_keep(d, u) == [x \in DOMAIN d \cup DOMAIN u |-> IF x \in DOMAIN d THEN d[x] ELSE u[x]]

\* dict.update(u): the keys of u win
Update(d, u) == [x \in DOMAIN d \cup DOMAIN u |-> IF x \in DOMAIN u THEN u[x] ELSE d[x]]

\* truth value of "if mat:" for a dict or None
Truthy(d) == d # None /\ DOMAIN d # {}

(***************************************************************************)
(* The host scene graph (bpy data): images, materials, objects             *)
(***************************************************************************)
\* files of the host outside any working directory
AssetFiles == {"/assets/tex.png", "/assets/env.exr", "D:/far.jpg"}

\* drive (filesystem root) of the working directories
WorkDrive == "C"

NoImage == [id |-> "none"]

imgTex == [id |-> "imgTex", name |-> "tex", file_format |-> "PNG", source |-> "FILE",
           filepath |-> "/assets/tex.png", library |-> FALSE, libpath |-> "", drive |-> "C"]

imgEnv == [id |-> "imgEnv", name |-> "env", file_format |-> "OPEN_EXR", source |-> "FILE",
           filepath |-> "/assets/env.exr", library |-> FALSE, libpath |-> "", drive |-> "C"]

imgNoise == [id |-> "imgNoise", name |-> "noise", file_format |-> "TARGA", source |-> "GENERATED",
             filepath |-> "", library |-> FALSE, libpath |-> "", drive |-> "C"]

imgFar == [id |-> "imgFar", name |-> "far", file_format |-> "JPEG", source |-> "FILE",
           filepath |-> "D:/far.jpg", library |-> FALSE, libpath |-> "", drive |-> "D"]

Images == {imgTex, imgEnv, imgNoise, imgFar}

NoMaterial == [id |-> "none"]

\* kind "surface": the converter returns a full bsdf record; kind "emissive":
\* the reference fragment describes the material alone, the record is None
matA == [id |-> "matA", name |-> "A", kind |-> "surface", tex |-> NoImage]

\* a second datablock with the same name (linked from a library)
matA_lib == [id |-> "matA_lib", name |-> "A", kind |-> "surface", tex |-> imgTex]

matB == [id |-> "matB", name |-> "B", kind |-> "emissive", tex |-> imgEnv]

matC == [id |-> "matC", name |-> "C", kind |-> "surface", tex |-> NoImage]

\* a material whose reference fragment holds a key of the object record: the
\* converter returns a mapping of string to value, whatever its keys
matD == [id |-> "matD", name |-> "D", kind |-> "typed", tex |-> NoImage]

Materials == {matA, matA_lib, matB, matC, matD}

MatNames == {m.name : m \in Materials}

Identity4 == <<<<1, 0, 0, 0>>, <<0, 1, 0, 0>>, <<0, 0, 1, 0>>, <<0, 0, 0, 1>>>>

Pose4 == <<<<0, -1, 0, 2>>, <<1, 0, 0, 3>>, <<0, 0, 2, 5>>, <<0, 0, 0, 1>>>>

objCube == [id |-> "objCube", name |-> "cube", type |-> "MESH",
            material_slots |-> <<matA>>, matrix_world |-> Pose4]

objBall == [id |-> "objBall", name |-> "ball", type |-> "SURFACE",
            material_slots |-> <<matA_lib>>, matrix_world |-> Identity4]

objText == [id |-> "objText", name |-> "text", type |-> "FONT",
            material_slots |-> <<>>, matrix_world |-> Identity4]

objWire == [id |-> "objWire", name |-> "wire", type |-> "CURVE",
            material_slots |-> <<NoMaterial, matB>>, matrix_world |-> Pose4]

objBlob == [id |-> "objBlob", name |-> "blob", type |-> "META",
            material_slots |-> <<matB, matA>>, matrix_world |-> Identity4]

objLamp == [id |-> "objLamp", name |-> "lamp", type |-> "LAMP",
            material_slots |-> <<matC>>, matrix_world |-> Pose4]

objCam == [id |-> "objCam", name |-> "cam", type |-> "CAMERA",
           material_slots |-> <<>>, matrix_world |-> Pose4]

\* a second object called "cube" (linked from a library)
objCube_lib == [id |-> "objCube_lib", name |-> "cube", type |-> "MESH",
                material_slots |-> <<matA_lib>>, matrix_world |-> Identity4]

objQuad == [id |-> "objQuad", name |-> "quad", type |-> "MESH",
            material_slots |-> <<matD>>, matrix_world |-> Identity4]

Objects == {objCube, objCube_lib, objBall, objText, objWire, objBlob, objQuad,
            objLamp, objCam}

\* the exported types with the text objects left out
GeometryTypes_no_font == {"MESH", "CURVE", "SURFACE", "META"}

\* the types add_object exports
GeometryTypes == {"MESH", "CURVE", "SURFACE", "META", "FONT"}

(***************************************************************************)
(* The filesystem: a directory holds named files, a file holds data        *)
(***************************************************************************)
\* the directory tempfile.mkdtemp(suffix='w') creates
TmpDir == "/tmp/tmpw"

\* the path the user selects in the export dialog
Target == "/out/target"

\* a second path of the caller, for the archive of a session that works in Target
ArchivePath == "/out/scene.zip"

Paths == {TmpDir, Target, ArchivePath}

NoData == [fmt |-> "none"]

UserData == [fmt |-> "user"]

Absent == [kind |-> "absent", files |-> {}, data |-> NoData]

EmptyDirectory == [kind |-> "dir", files |-> {}, data |-> NoData]

\* Entries of a directory: a record with the name, the content and, for an
\* entry below a subdirectory, the path "in" of that subdirectory relative to
\* the directory.  Content of kind "directory" is a subdirectory, of kind
\* "symlink" a link whose target is gone; every other kind is a regular file.
UserFile == [name |-> "notes.txt", content |-> [kind |-> "user"]]

OldDir == [name |-> "old", content |-> [kind |-> "directory"]]

OldFile == [name |-> "a.txt", in |-> "old", content |-> [kind |-> "user"]]

OldEmptyDir == [name |-> "empty", in |-> "old", content |-> [kind |-> "directory"]]

DeadLink == [name |-> "link", content |-> [kind |-> "symlink"]]

\* relative path of the directory an entry lies in; "." is the directory itself
Parent(e) == IF "in" \in DOMAIN e THEN e.in ELSE "."

\* os.path.join(relroot, name), normalised
JoinPath(relroot, name) == IF relroot = "." THEN name ELSE relroot \o "/" \o name

EntryPath(e) == JoinPath(Parent(e), e.name)

IsDirectory(e) == e.content.kind = "directory"

\* os.path.isfile
IsFile(e) == e.content.kind \notin {"directory", "symlink"}

\* what may lie at the target path before an export
TargetStates == {Absent,
                 [kind |-> "dir", files |-> {UserFile}, data |-> NoData],
                 [kind |-> "file", files |-> {}, data |-> UserData],
                 [kind |-> "other", files |-> {}, data |-> NoData]}

\* open(name, 'w'): create or replace the file called name
WriteFile(files, name, content) ==
    {f \in files : EntryPath(f) # name} \cup {[name |-> name, content |-> content]}

FileNames(files) == {f.name : f \in files}

(***************************************************************************)
(* State                                                                   *)
(***************************************************************************)
VARIABLES
    fs,        \* the filesystem: path -> [kind, files, data]
    sess,      \* the TungstenScene object: alive, dir, clean_on_del, self_contained, sid
    scene,     \* self.scene, the Document
    mats,      \* self.mats: material name -> reference fragment
    images,    \* self.images: image name -> path
    conv,      \* per material name, how often W_PT_material.to_scene_data was called
               \* and how often it returned in this session
    last,      \* the last call: op, arg, ok, ret, ext (the external calls it made)
    faults,    \* number of calls that raised so far
    calls,     \* number of method calls made on the session
    pc,        \* position of W_OT_export.execute
    op         \* the operator's properties and result

vars == <<fs, sess, scene, mats, images, conv, last, faults, calls, pc, op>>

default_mat == "__default_mat"

DefaultBsdf == [name |-> default_mat, type |-> "lambert", albedo |-> "0.8"]

RendererDefaults == [output_file |-> "scene.png", overwrite_output_files |-> TRUE,
                     enable_resume_render |-> FALSE, checkpoint_interval |-> 0]

\* self.scene as __init__ leaves it
NewScene == [media |-> <<>>,
             bsdfs |-> <<DefaultBsdf>>,
             primitives |-> <<>>,
             camera |-> EmptyDict,
             integrator |-> EmptyDict,
             renderer |-> RendererDefaults]

NoFault == <<"none", "none">>

\* The session as the methods see it; files are those of self.dir, dirok
\* says that self.dir is a directory (a write into anything else raises).
Cur == [scene |-> scene, mats |-> mats, images |-> images,
        files |-> fs[sess.dir].files, dirok |-> fs[sess.dir].kind = "dir",
        self_contained |-> sess.self_contained,
        conv |-> conv, ok |-> TRUE, ext |-> <<>>]

Raise(st) == [st EXCEPT !.ok = FALSE]

Called(st, call) == [st EXCEPT !.ext = Append(@, call)]

(***************************************************************************)
(* Images                                                                  *)
(***************************************************************************)
IMAGE_FORMATS == [BMP |-> ".bmp", PNG |-> ".png", JPEG |-> ".jpg",
                  TARGA |-> ".tga", TARGA_RAW |-> ".tga", HDR |-> ".hdr"]

\* os.path.relpath(path, self.dir): every working directory is two levels
\* below the root of WorkDrive
RelPath(path) == "../.." \o path

\* _save_image_as that writes the image as it is, whatever fmt asks for
_save_image_as_native(st, im, dest, fmt, fault) ==
    LET s0 == Called(st, <<"save_image", im.id, dest>>)
    IN  IF fault = <<"image", im.id>> \/ ~st.dirok
        THEN Raise(s0)
        ELSE [s0 EXCEPT !.files = WriteFile(@, dest,
                 [kind |-> "image", of |-> im.id, enc |-> im.file_format, how |-> "save"])]

\* im.save() when the image is file-backed in the wanted format, else save_render
\* with the render settings switched to fmt; either way the file at dest is in fmt
_save_image_as(st, im, dest, fmt, fault) ==
    LET how == IF im.source = "FILE" /\ im.file_format = fmt THEN "save" ELSE "save_render"
        s0 == Called(st, <<"save_image", im.id, dest>>)
    IN  IF fault = <<"image", im.id>> \/ ~st.dirok
        THEN Raise(s0)
        ELSE [s0 EXCEPT !.files = WriteFile(@, dest,
                 [kind |-> "image", of |-> im.id, enc |-> fmt, how |-> how])]

ImagePath(im) == IF im.library THEN im.libpath ELSE im.filepath

\* resolve_image that references an existing file even in a self-contained session
resolve_image_reference(st, im, fault) ==
    IF im.file_format \in DOMAIN IMAGE_FORMATS /\ ImagePath(im) \in AssetFiles
    THEN LET p == IF im.drive = WorkDrive THEN RelPath(ImagePath(im)) ELSE ImagePath(im)
         IN  [st |-> [st EXCEPT !.images = Put(@, im.name, p)], ret |-> p]
    ELSE LET dest == im.name \o (IF im.file_format \in DOMAIN IMAGE_FORMATS
                                  THEN IMAGE_FORMATS[im.file_format] ELSE ".png")
             s1 == _save_image_as(st, im, dest,
                       IF im.file_format \in DOMAIN IMAGE_FORMATS THEN im.file_format ELSE "PNG",
                       fault)
         IN  IF s1.ok
             THEN [st |-> [s1 EXCEPT !.images = Put(@, im.name, dest)], ret |-> dest]
             ELSE [st |-> s1, ret |-> ""]

\* add_image past the cache lookup: reference the existing file or save one
resolve_image(st, im, fault) ==
    IF im.file_format \in DOMAIN IMAGE_FORMATS
    THEN LET ext == IMAGE_FORMATS[im.file_format]
             path == ImagePath(im)
         IN  IF path # "" /\ path \in AssetFiles /\ ~st.self_contained
             THEN LET p == IF im.drive = WorkDrive THEN RelPath(path) ELSE path
                  IN  [st |-> [st EXCEPT !.images = Put(@, im.name, p)], ret |-> p]
             ELSE LET dest == im.name \o ext
                      s1 == _save_image_as(st, im, dest, im.file_format, fault)
                  IN  IF s1.ok
                      THEN [st |-> [s1 EXCEPT !.images = Put(@, im.name, dest)], ret |-> dest]
                      ELSE [st |-> s1, ret |-> ""]
    ELSE LET dest == im.name \o ".png"
             s1 == _save_image_as(st, im, dest, "PNG", fault)
         IN  IF s1.ok
             THEN [st |-> [s1 EXCEPT !.images = Put(@, im.name, dest)], ret |-> dest]
             ELSE [st |-> s1, ret |-> ""]

\* add_image that looks nothing up in self.images
add_image_uncached(st, im, fault) == resolve_image(st, im, fault)

add_image(st, im, fault) ==
    IF im.name \in DOMAIN st.images
    THEN [st |-> st, ret |-> st.images[im.name]]
    ELSE resolve_image(st, im, fault)

(***************************************************************************)
(* Materials                                                               *)
(***************************************************************************)
\* W_PT_material.to_scene_data(session, m) -> (reference fragment, full record
\* or None).  It resolves the material's texture through add_image.
W_PT_material_to_scene_data(st, m, fault) ==
    LET s0 == [Called(st, <<"convert_material", m.id>>) EXCEPT !.conv[m.name].calls = @ + 1]
        Returned(s) == [s EXCEPT !.conv[m.name].returns = @ + 1]
    IN  IF fault = <<"material", m.id>>
        THEN [st |-> Raise(s0), obj |-> EmptyDict, mat |-> None]
        ELSE LET r == IF m.tex # NoImage THEN add_image(s0, m.tex, fault)
                                         ELSE [st |-> s0, ret |-> ""]
             IN  IF ~r.st.ok
                 THEN [st |-> r.st, obj |-> EmptyDict, mat |-> None]
                 ELSE IF m.kind = "emissive"
                 THEN [st |-> Returned(r.st),
                       obj |-> [bsdf |-> default_mat, emission |-> r.ret],
                       mat |-> None]
                 ELSE IF m.kind = "typed"
                 THEN [st |-> Returned(r.st),
                       obj |-> [bsdf |-> default_mat, type |-> "quad"],
                       mat |-> None]
                 ELSE [st |-> Returned(r.st),
                       obj |-> [bsdf |-> m.name],
                       mat |-> [name |-> m.name, type |-> "lambert",
                                albedo |-> IF m.tex # NoImage THEN r.ret ELSE "0.5"]]

\* add_material past the cache lookup: convert, append the record, cache the fragment
convert_material(st, m, fault) ==
    LET c == W_PT_material_to_scene_data(st, m, fault)
    IN  IF ~c.st.ok
        THEN [st |-> c.st, ret |-> EmptyDict]
        ELSE LET s1 == IF Truthy(c.mat)
                       THEN [c.st EXCEPT !.scene.bsdfs = Append(@, c.mat)]
                       ELSE c.st
             IN  [st |-> [s1 EXCEPT !.mats = Put(@, m.name, c.obj)], ret |-> c.obj]

\* add_material that puts the new record in front of bsdfs
add_material_front(st, m, fault) ==
    IF m.name \in DOMAIN st.mats
    THEN [st |-> st, ret |-> st.mats[m.name]]
    ELSE LET c == W_PT_material_to_scene_data(st, m, fault)
         IN  IF ~c.st.ok
             THEN [st |-> c.st, ret |-> EmptyDict]
             ELSE LET s1 == IF Truthy(c.mat)
                            THEN [c.st EXCEPT !.scene.bsdfs = <<c.mat>> \o @]
                            ELSE c.st
                  IN  [st |-> [s1 EXCEPT !.mats = Put(@, m.name, c.obj)], ret |-> c.obj]

\* add_material that looks nothing up in self.mats
add_material_uncached(st, m, fault) == convert_material(st, m, fault)

\* add_material that records the name before the converter has returned
add_material_early(st, m, fault) ==
    IF m.name \in DOMAIN st.mats
    THEN [st |-> st, ret |-> st.mats[m.name]]
    ELSE LET r == convert_material(st, m, fault)
         IN  IF r.st.ok THEN r
             ELSE [st |-> [r.st EXCEPT !.mats = Put(@, m.name, EmptyDict)], ret |-> EmptyDict]

add_material(st, m, fault) ==
    IF m.name \in DOMAIN st.mats
    THEN [st |-> st, ret |-> st.mats[m.name]]
    ELSE convert_material(st, m, fault)

(***************************************************************************)
(* Meshes and objects                                                      *)
(***************************************************************************)
\* write_object_mesh(scene, o, fulloutname): writes the mesh file
write_object_mesh(st, o, outname, fault) ==
    LET s0 == Called(st, <<"write_mesh", o.id, outname>>)
    IN  IF fault = <<"mesh", o.id>> \/ ~st.dirok
        THEN Raise(s0)
        ELSE [s0 EXCEPT !.files = WriteFile(@, outname, [kind |-> "mesh", of |-> o.id])]

\* the optional name argument of add_mesh: None or a string n, held as Str(n)
Str(n) == [str |-> n]

add_mesh(st, o, name, fault) ==
    LET n == IF name = None THEN o.name ELSE name.str
        outname == n \o ".wo3"
    IN  [st |-> write_object_mesh(st, o, outname, fault), ret |-> outname]

\* the rows of a 4x4 matrix one after the other
Flatten(m) == m[1] \o m[2] \o m[3] \o m[4]

\* add_object that takes the first filled material slot instead of slot 0
add_object_any_slot(st, o, fault) ==
    IF o.type \notin GeometryTypes
    THEN st
    ELSE LET f == add_mesh(st, o, None, fault)
             dat == [name |-> o.name, type |-> "mesh", smooth |-> TRUE, file |-> f.ret,
                     transform |-> Flatten(o.matrix_world)]
             filled == {i \in DOMAIN o.material_slots : o.material_slots[i] # NoMaterial}
         IN  IF ~f.st.ok
             THEN f.st
             ELSE IF filled # {}
             THEN LET i == CHOOSE x \in filled : \A y \in filled : x <= y
                      r == add_material(f.st, o.material_slots[i], fault)
                  IN  IF ~r.st.ok
                      THEN r.st
                      ELSE [r.st EXCEPT !.scene.primitives = Append(@, Update(dat, r.ret))]
             ELSE [f.st EXCEPT !.scene.primitives =
                                   Append(@, Put(dat, "bsdf", default_mat))]

add_object(st, o, fault) ==
    IF o.type \notin GeometryTypes
    THEN st
    ELSE LET f == add_mesh(st, o, None, fault)
             dat == [name |-> o.name, type |-> "mesh", smooth |-> TRUE, file |-> f.ret,
                     transform |-> Flatten(o.matrix_world)]
         IN  IF ~f.st.ok
             THEN f.st
             ELSE IF Len(o.material_slots) > 0 /\ o.material_slots[1] # NoMaterial
             THEN LET r == add_material(f.st, o.material_slots[1], fault)
                  IN  IF ~r.st.ok
                      THEN r.st
                      ELSE [r.st EXCEPT !.scene.primitives = Append(@, Update(dat, r.ret))]
             ELSE [f.st EXCEPT !.scene.primitives =
                                   Append(@, Put(dat, "bsdf", default_mat))]

(***************************************************************************)
(* World, camera, settings                                                 *)
(***************************************************************************)
NoWorld == [id |-> "none"]

worldSky == [id |-> "worldSky", color |-> "blue"]

NoCamera == [id |-> "none"]

\* W_PT_world.to_scene_data(session, world) -> the world's primitive record
W_PT_world_to_scene_data(st, world, fault) ==
    LET s0 == Called(st, <<"convert_world", world.id>>)
    IN  IF fault = <<"world", world.id>>
        THEN [st |-> Raise(s0), ret |-> EmptyDict]
        ELSE [st |-> s0, ret |-> [type |-> "skydome", emission |-> world.color]]

add_world(st, world, fault) ==
    LET p == W_PT_world_to_scene_data(st, world, fault)
    IN  IF ~p.st.ok
        THEN p.st
        ELSE [p.st EXCEPT !.scene.primitives = Append(@, p.ret)]

Dot4(a, b) == a[1] * b[1] + a[2] * b[2] + a[3] * b[3] + a[4] * b[4]

Column(m, j) == <<m[1][j], m[2][j], m[3][j], m[4][j]>>

\* row i of the product a * b
MatRow(a, b, i) == <<Dot4(a[i], Column(b, 1)), Dot4(a[i], Column(b, 2)),
                     Dot4(a[i], Column(b, 3)), Dot4(a[i], Column(b, 4))>>

\* the product taken the other way round, b * a
MatMul_swapped(a, b) == <<MatRow(b, a, 1), MatRow(b, a, 2), MatRow(b, a, 3), MatRow(b, a, 4)>>

MatMul(a, b) == <<MatRow(a, b, 1), MatRow(a, b, 2), MatRow(a, b, 3), MatRow(a, b, 4)>>

\* Matrix.Scale(-1, 4, Vector((0, 0, 1))) and Matrix.Scale(-1, 4, Vector((1, 0, 0)))
FlipZ == <<<<1, 0, 0, 0>>, <<0, 1, 0, 0>>, <<0, 0, -1, 0>>, <<0, 0, 0, 1>>>>

FlipX == <<<<-1, 0, 0, 0>>, <<0, 1, 0, 0>>, <<0, 0, 1, 0>>, <<0, 0, 0, 1>>>>

\* W_PT_camera.to_scene_data(session, camera) -> extra camera fields
W_PT_camera_to_scene_data(camera) == [type |-> "pinhole"]

RECURSIVE Pow2(_)
Pow2(n) == IF n = 0 THEN 1 ELSE 2 * Pow2(n - 1)

RECURSIVE DoubleMod100(_, _)
\* (rem * 2^n) % 100, for rem in 0..99
DoubleMod100(rem, n) ==
    IF rem = 0 \/ n = 0 THEN rem ELSE DoubleMod100((2 * rem) % 100, n - 1)

RECURSIVE BinExpFrom(_, _, _)
\* e + the binary exponent of a / b, for positive a and b
BinExpFrom(a, b, e) ==
    IF a < b THEN BinExpFrom(2 * a, b, e - 1)
    ELSE IF a >= 2 * b THEN BinExpFrom(a, 2 * b, e + 1)
    ELSE e

\* the binary exponent e of percentage / 100: 2^e <= percentage / 100 < 2^(e+1)
BinExp(percentage) == BinExpFrom(percentage, 100, 0)

\* int(resolution * (percentage / 100)) in double precision, for a positive
\* resolution and percentage.  scale = percentage / 100 is the double nearest
\* to the quotient, M * 2^-(52 - e) with a 53-bit M; r is what the division
\* leaves over, and with 0 < r < 50 scale lies r / (100 * 2^(52 - e)) below
\* the quotient.  When resolution * percentage / 100 is a whole number q the
\* product lies res times as far below q and is rounded to the double below
\* q, which int() cuts to q - 1, when that distance exceeds half the spacing
\* of the doubles below q; in every other case the result is the whole part
\* of the exact product.
ScaledResolution(res, percentage) ==
    LET q == (res * percentage) \div 100
        e == BinExp(percentage)
        r == DoubleMod100(percentage % 100, 52 - e)
        m == CHOOSE i \in 0..29 : Pow2(i) <= q /\ q < Pow2(i + 1)
        f == IF q = Pow2(m) THEN 4 ELSE 2
    IN  IF (res * percentage) % 100 # 0 \/ q = 0 \/ r = 0 \/ r >= 50
        THEN q
        ELSE IF f * res * r <= 100 * Pow2(m - e) THEN q ELSE q - 1

add_camera(st, hs) ==
    IF hs.camera = NoCamera
    THEN Raise(st)
    ELSE LET transform == MatMul(MatMul(hs.camera.matrix_world, FlipZ), FlipX)
             width == ScaledResolution(hs.render.resolution_x, hs.render.resolution_percentage)
             height == ScaledResolution(hs.render.resolution_y, hs.render.resolution_percentage)
             cam == [transform |-> Flatten(transform), resolution |-> <<width, height>>]
         IN  [Called(st, <<"convert_camera", hs.camera.id>>)
                 EXCEPT !.scene.camera = Update(cam, W_PT_camera_to_scene_data(hs.camera))]

\* W_PT_renderer.to_scene_data and W_PT_integrator.to_scene_data
W_PT_renderer_to_scene_data(hs) == hs.render.renderer

W_PT_integrator_to_scene_data(hs) == hs.render.integrator

\* a loop that goes on to the next object after an add_object has raised
add_objects_continue(st, objs, fault) ==
    LET after[i \in 0..Len(objs)] ==
            IF i = 0 THEN st
            ELSE add_object(after[i - 1], objs[i], fault)
    IN  after[Len(objs)]

\* for o in scene.objects.values(): self.add_object(scene, o)
\* an exception in one add_object ends the loop
add_objects(st, objs, fault) ==
    LET after[i \in 0..Len(objs)] ==
            IF i = 0 THEN st
            ELSE IF after[i - 1].ok THEN add_object(after[i - 1], objs[i], fault)
            ELSE after[i - 1]
    IN  after[Len(objs)]

\* add_all that starts from empty material and image caches
add_all_forgetful(st, hs, fault) ==
    LET s0 == [st EXCEPT !.mats = EmptyDict, !.images = EmptyDict]
        s1 == [Called(s0, <<"convert_renderer", "scene">>)
                  EXCEPT !.scene.renderer = Update(@, W_PT_renderer_to_scene_data(hs))]
        s2 == [Called(s1, <<"convert_integrator", "scene">>)
                  EXCEPT !.scene.integrator = Update(@, W_PT_integrator_to_scene_data(hs))]
        s3 == IF hs.world # NoWorld THEN add_world(s2, hs.world, fault) ELSE s2
        s4 == IF s3.ok THEN add_camera(s3, hs) ELSE s3
    IN  add_objects(s4, hs.objects, fault)

\* add_all that builds the camera before it converts the world
add_all_camera_first(st, hs, fault) ==
    LET s1 == [Called(st, <<"convert_renderer", "scene">>)
                  EXCEPT !.scene.renderer = Update(@, W_PT_renderer_to_scene_data(hs))]
        s2 == [Called(s1, <<"convert_integrator", "scene">>)
                  EXCEPT !.scene.integrator = Update(@, W_PT_integrator_to_scene_data(hs))]
        s3 == add_camera(s2, hs)
        s4 == IF s3.ok /\ hs.world # NoWorld THEN add_world(s3, hs.world, fault) ELSE s3
    IN  add_objects(s4, hs.objects, fault)

add_all(st, hs, fault) ==
    LET s1 == [Called(st, <<"convert_renderer", "scene">>)
                  EXCEPT !.scene.renderer = Update(@, W_PT_renderer_to_scene_data(hs))]
        s2 == [Called(s1, <<"convert_integrator", "scene">>)
                  EXCEPT !.scene.integrator = Update(@, W_PT_integrator_to_scene_data(hs))]
        s3 == IF hs.world # NoWorld THEN add_world(s2, hs.world, fault) ELSE s2
        s4 == IF s3.ok THEN add_camera(s3, hs) ELSE s3
    IN  add_objects(s4, hs.objects, fault)

\* the host scenes handed to add_all
RenderSettings ==
    {[resolution_x |-> 1920, resolution_y |-> 1080, resolution_percentage |-> 50,
      renderer |-> [spp |-> 32, output_file |-> "final.png"],
      integrator |-> [type |-> "path_tracer"]]}

\* settings whose percentage is no binary fraction: int(100 * 0.29) is 28
FractionalSettings ==
    {[resolution_x |-> 100, resolution_y |-> 250, resolution_percentage |-> 29,
      renderer |-> [spp |-> 32, output_file |-> "final.png"],
      integrator |-> [type |-> "path_tracer"]]}

\* the objects host scenes are made of: two that share a material name and
\* one without a material
SceneObjects == {objCube, objBall, objText}

\* scenes with an object that has no geometry among those that have
LampLists == {<<objLamp, objCube>>, <<objBall, objLamp>>}

ObjectLists ==
    {q \in UNION {[1..n -> SceneObjects] : n \in 0..MaxObjs} :
        \A i, j \in DOMAIN q : q[i] = q[j] => i = j}

\* a scene without a camera makes add_camera raise before any object is reached
HostScenes ==
    {[world |-> w, camera |-> objCam, objects |-> q, render |-> r] :
        w \in {NoWorld, worldSky}, q \in ObjectLists \cup LampLists, r \in RenderSettings}
    \cup {[world |-> w, camera |-> NoCamera, objects |-> <<>>, render |-> r] :
        w \in {NoWorld, worldSky}, r \in RenderSettings}
    \cup {[world |-> NoWorld, camera |-> objCam, objects |-> <<>>, render |-> r] :
        r \in FractionalSettings}

(***************************************************************************)
(* Persisting, archiving, teardown                                         *)
(***************************************************************************)
\* json.dump(self.scene) into <dir>/scene.json
save(st) ==
    IF ~st.dirok
    THEN Raise(st)
    ELSE [st EXCEPT !.files = WriteFile(@, "scene.json",
                                  [kind |-> "manifest", doc |-> st.scene])]

RECURSIVE WalkFrom(_, _)
\* the directories os.walk visits, as paths relative to the top: the top and
\* every subdirectory of a visited directory
WalkFrom(files, roots) ==
    LET below == {EntryPath(d) : d \in {e \in files : IsDirectory(e) /\ Parent(e) \in roots}}
    IN  IF below \subseteq roots THEN roots ELSE WalkFrom(files, roots \cup below)

\* os.walk(self.dir) yields nothing when self.dir is not a directory
WalkRoots(entry) == IF entry.kind = "dir" THEN WalkFrom(entry.files, {"."}) ELSE {}

\* to_zip that packs only the entries of the top directory
ArchiveMembers_flat(entry) ==
    {[arcname |-> e.name, dir |-> FALSE, content |-> e.content] :
        e \in {x \in entry.files : entry.kind = "dir" /\ Parent(x) = "." /\ IsFile(x)}}

\* the members to_zip writes: one for every visited directory but the top,
\* one for every entry of a visited directory that os.path.isfile accepts
ArchiveMembers(entry) ==
    {[arcname |-> r \o "/", dir |-> TRUE] : r \in WalkRoots(entry) \ {"."}}
    \cup {[arcname |-> JoinPath(Parent(e), e.name), dir |-> FALSE, content |-> e.content] :
            e \in {x \in entry.files : Parent(x) \in WalkRoots(entry) /\ IsFile(x)}}

\* a call with this outcome comes back to its caller, by return or by raise;
\* one that blocks in open() never does
Returns(outcome) == outcome # "blocks"

\* zipfile.ZipFile(outpath, 'w'): a new or a regular file is written, a
\* directory cannot be opened; a special file takes the archive as a stream
\* and stays what it is (a pipe that has a reader), cannot be opened (a
\* socket), or keeps the call waiting (a pipe without a reader)
OpenOutcomes(entry) ==
    IF entry.kind \in {"absent", "file"} THEN {"written"}
    ELSE IF entry.kind = "dir" THEN {"raises"}
    ELSE {"streamed", "raises", "blocks"}

to_zip(f, dir, outpath, compress, outcome) ==
    IF outcome = "written"
    THEN [f EXCEPT ![outpath] =
             [kind |-> "file", files |-> {},
              data |-> [fmt |-> "zip", compress |-> compress,
                        entries |-> ArchiveMembers(f[dir])]]]
    ELSE f

\* shutil.rmtree(path): a directory is removed with all it holds; a missing
\* path and a regular file raise; a special file raises (a socket) or keeps
\* the call waiting in os.open (a pipe)
RmtreeOutcomes(entry) ==
    IF entry.kind = "dir" THEN {"removed"}
    ELSE IF entry.kind \in {"absent", "file"} THEN {"raises"}
    ELSE {"raises", "blocks"}

rmtree(f, dir, outcome) == IF outcome = "removed" THEN [f EXCEPT ![dir] = Absent] ELSE f

\* an exception in __del__ is ignored
__del__(f, s, outcome) == IF s.clean_on_del THEN rmtree(f, s.dir, outcome) ELSE f

(***************************************************************************)
(* The calls that can raise while a given entity is exported               *)
(***************************************************************************)
FaultsOfImage(im) == {<<"image", im.id>>}

FaultsOfMaterial(m) ==
    {<<"material", m.id>>} \cup (IF m.tex # NoImage THEN FaultsOfImage(m.tex) ELSE {})

FaultsOfObject(o) ==
    {<<"mesh", o.id>>}
    \cup (IF Len(o.material_slots) > 0 /\ o.material_slots[1] # NoMaterial
          THEN FaultsOfMaterial(o.material_slots[1]) ELSE {})

FaultsOfScene(hs) ==
    (IF hs.world # NoWorld THEN {<<"world", hs.world.id>>} ELSE {})
    \cup UNION {FaultsOfObject(hs.objects[i]) : i \in DOMAIN hs.objects}

\* no fault at all, or one that makes the call raise
Effective(fault, ok) == fault = NoFault \/ ~ok

(***************************************************************************)
(* Session state shared by the actions                                     *)
(***************************************************************************)
NoSession == [alive |-> FALSE, owner |-> "none", dir |-> Target,
              clean_on_del |-> FALSE, self_contained |-> FALSE]

NoCall == [op |-> "none", arg |-> "", ok |-> TRUE, ret |-> "", ext |-> <<>>]

NoConversions == [n \in MatNames |-> [calls |-> 0, returns |-> 0]]

OperatorDefaults == [zip |-> TRUE, self_contained |-> TRUE, compress |-> TRUE,
                     result |-> "none"]

\* TungstenScene.__init__: self.dir and the filesystem it leaves
InitDir(usePath) == IF usePath THEN Target ELSE TmpDir

InitFs(f, usePath) ==
    IF ~usePath
    THEN [f EXCEPT ![TmpDir] = EmptyDirectory]
    ELSE IF f[Target].kind = "absent"
    THEN [f EXCEPT ![Target] = EmptyDirectory]
    ELSE f

NewSession(owner, clean_on_del, self_contained, usePath) ==
    [alive |-> TRUE, owner |-> owner, dir |-> InitDir(usePath),
     clean_on_del |-> clean_on_del, self_contained |-> self_contained]

FreshSession(owner, clean_on_del, self_contained, usePath) ==
    /\ fs' = InitFs(fs, usePath)
    /\ sess' = NewSession(owner, clean_on_del, self_contained, usePath)
    /\ scene' = NewScene
    /\ mats' = EmptyDict
    /\ images' = EmptyDict
    /\ conv' = NoConversions

\* the session object is gone
Dropped ==
    /\ \E outcome \in RmtreeOutcomes(fs[sess.dir]) :
          /\ Returns(outcome)
          /\ fs' = __del__(fs, sess, outcome)
    /\ sess' = NoSession
    /\ scene' = NewScene
    /\ mats' = EmptyDict
    /\ images' = EmptyDict
    /\ conv' = NoConversions

\* write the session value a method returns back into the state
Commit(st) ==
    /\ st.ok \/ faults < MaxFaults
    /\ Len(st.scene.primitives) <= MaxPrims
    /\ faults' = IF st.ok THEN faults ELSE faults + 1
    /\ scene' = st.scene
    /\ mats' = st.mats
    /\ images' = st.images
    /\ conv' = st.conv
    /\ fs' = [fs EXCEPT ![sess.dir].files = st.files]

Api == pc = "idle" /\ sess.alive /\ sess.owner = "api"

(***************************************************************************)
(* The methods of a session                                                *)
(***************************************************************************)
AddImage(im, fault) ==
    /\ Api
    /\ \E r \in {add_image(Cur, im, fault)} :
           /\ Effective(fault, r.st.ok)
           /\ Commit(r.st)
           /\ last' = [op |-> "add_image", arg |-> im.id, ok |-> r.st.ok,
                       ret |-> r.ret, ext |-> r.st.ext]
    /\ UNCHANGED <<sess, pc, op>>

AddMaterial(m, fault) ==
    /\ Api
    /\ \E r \in {add_material(Cur, m, fault)} :
           /\ Effective(fault, r.st.ok)
           /\ Commit(r.st)
           /\ last' = [op |-> "add_material", arg |-> m.id, ok |-> r.st.ok,
                       ret |-> r.ret, ext |-> r.st.ext]
    /\ UNCHANGED <<sess, pc, op>>

AddObject(o, fault) ==
    /\ Api
    /\ \E st \in {add_object(Cur, o, fault)} :
           /\ Effective(fault, st.ok)
           /\ Commit(st)
           /\ last' = [op |-> "add_object", arg |-> o.id, ok |-> st.ok,
                       ret |-> "", ext |-> st.ext]
    /\ UNCHANGED <<sess, pc, op>>

AddMesh(o, name, fault) ==
    /\ Api
    /\ \E r \in {add_mesh(Cur, o, name, fault)} :
           /\ Effective(fault, r.st.ok)
           /\ Commit(r.st)
           /\ last' = [op |-> "add_mesh", arg |-> o.id, ok |-> r.st.ok,
                       ret |-> r.ret, ext |-> r.st.ext]
    /\ UNCHANGED <<sess, pc, op>>

AddWorld(world, fault) ==
    /\ Api
    /\ \E st \in {add_world(Cur, world, fault)} :
           /\ Effective(fault, st.ok)
           /\ Commit(st)
           /\ last' = [op |-> "add_world", arg |-> world.id, ok |-> st.ok,
                       ret |-> "", ext |-> st.ext]
    /\ UNCHANGED <<sess, pc, op>>

AddCamera(hs) ==
    /\ Api
    /\ \E st \in {add_camera(Cur, hs)} :
           /\ Commit(st)
           /\ last' = [op |-> "add_camera", arg |-> hs.camera.id, ok |-> st.ok,
                       ret |-> "", ext |-> st.ext]
    /\ UNCHANGED <<sess, pc, op>>

AddAll(hs, fault) ==
    /\ Api
    /\ \E st \in {add_all(Cur, hs, fault)} :
           /\ Effective(fault, st.ok)
           /\ Commit(st)
           /\ last' = [op |-> "add_all", arg |-> "", ok |-> st.ok,
                       ret |-> "", ext |-> st.ext, hs |-> hs]
    /\ UNCHANGED <<sess, pc, op>>

Save ==
    /\ Api
    /\ \E st \in {save(Cur)} :
           /\ Commit(st)
           /\ last' = [op |-> "save", arg |-> "", ok |-> st.ok, ret |-> "", ext |-> <<>>]
    /\ UNCHANGED <<sess, pc, op>>

ToZip(outpath, compress) ==
    /\ Api
    /\ \E outcome \in OpenOutcomes(fs[outpath]) :
          /\ Returns(outcome)
          /\ outcome # "raises" \/ faults < MaxFaults
          /\ fs' = to_zip(fs, sess.dir, outpath, compress, outcome)
          /\ faults' = IF outcome # "raises" THEN faults ELSE faults + 1
          /\ last' = [op |-> "to_zip", arg |-> outpath, ok |-> outcome # "raises",
                      ret |-> "", ext |-> <<>>]
    /\ UNCHANGED <<sess, scene, mats, images, conv, pc, op>>

\* __del__ when the caller drops the session
Del ==
    /\ Api
    /\ Dropped
    /\ pc' = "closed"
    /\ last' = [op |-> "__del__", arg |-> sess.dir, ok |-> TRUE, ret |-> "", ext |-> <<>>]
    /\ UNCHANGED <<faults, op>>

Construct(clean_on_del, self_contained, usePath) ==
    /\ pc = "idle" /\ ~sess.alive
    /\ FreshSession("api", clean_on_del, self_contained, usePath)
    /\ last' = [op |-> "__init__", arg |-> IF usePath THEN Target ELSE "None",
                ok |-> TRUE, ret |-> "", ext |-> <<>>]
    /\ UNCHANGED <<faults, pc, op>>

\* direct calls of add_mesh: objects with and without geometry, under their
\* own name or under the name of the cube
MeshObjects == {objCube, objBall, objLamp}

MeshNames == {None, Str("cube")}

\* the host scenes of at most one object
SmallScenes == {hs \in HostScenes : Len(hs.objects) <= 1}

\* the host scenes with only a camera and render settings matter to add_camera
CameraScenes == {hs \in HostScenes : hs.world = NoWorld /\ hs.objects = <<>>}

(***************************************************************************)
(* W_OT_export.execute, one step per statement                             *)
(***************************************************************************)
\* the precondition without its second branch
PathConflict_archive_only(f, zip) ==
    f[Target].kind # "absent" /\ zip /\ f[Target].kind # "file"

\* the precondition on self.filepath
PathConflict(f, zip) ==
    /\ f[Target].kind # "absent"
    /\ \/ zip /\ f[Target].kind # "file"
       \/ ~zip /\ f[Target].kind # "dir"

ExecuteCancelled(zip, self_contained, compress) ==
    /\ pc \in {"idle", "cancelled"} /\ ~sess.alive
    /\ PathConflict(fs, zip)
    /\ op' = [zip |-> zip, self_contained |-> self_contained, compress |-> compress,
              result |-> "CANCELLED"]
    /\ pc' = "cancelled"
    /\ last' = [op |-> "execute", arg |-> Target, ok |-> TRUE, ret |-> "CANCELLED",
                ext |-> <<>>]
    /\ UNCHANGED <<fs, sess, scene, mats, images, conv, faults>>

ExecuteConstruct(zip, self_contained, compress) ==
    /\ pc \in {"idle", "cancelled"} /\ ~sess.alive
    /\ ~PathConflict(fs, zip)
    /\ IF zip
       THEN FreshSession("operator", TRUE, self_contained, FALSE)
       ELSE FreshSession("operator", FALSE, self_contained, TRUE)
    /\ op' = [zip |-> zip, self_contained |-> self_contained, compress |-> compress,
              result |-> "none"]
    /\ pc' = "constructed"
    /\ last' = [op |-> "__init__", arg |-> IF zip THEN "None" ELSE Target,
                ok |-> TRUE, ret |-> "", ext |-> <<>>]
    /\ UNCHANGED faults

ExecuteAddAll(hs, fault) ==
    /\ pc = "constructed"
    /\ \E st \in {add_all(Cur, hs, fault)} :
           /\ Effective(fault, st.ok)
           /\ Commit(st)
           /\ pc' = IF st.ok THEN "populated" ELSE "raised"
           /\ last' = [op |-> "add_all", arg |-> "", ok |-> st.ok,
                       ret |-> "", ext |-> st.ext, hs |-> hs]
    /\ UNCHANGED <<sess, op>>

ExecuteSave ==
    /\ pc = "populated"
    /\ \E st \in {save(Cur)} :
           /\ Commit(st)
           /\ pc' = IF st.ok THEN "saved" ELSE "raised"
           /\ last' = [op |-> "save", arg |-> "", ok |-> st.ok, ret |-> "", ext |-> <<>>]
    /\ UNCHANGED <<sess, op>>

\* execute that archives the working directory before the manifest is saved
ExecuteToZip_unsaved ==
    /\ pc = "populated" /\ op.zip
    /\ fs' = to_zip(fs, sess.dir, Target, op.compress, "written")
    /\ pc' = "zipped"
    /\ last' = [op |-> "to_zip", arg |-> Target, ok |-> TRUE, ret |-> "", ext |-> <<>>]
    /\ UNCHANGED <<sess, scene, mats, images, conv, op, faults>>

ExecuteToZip ==
    /\ pc = "saved" /\ op.zip
    /\ \E outcome \in OpenOutcomes(fs[Target]) :
          /\ Returns(outcome)
          /\ outcome # "raises" \/ faults < MaxFaults
          /\ fs' = to_zip(fs, sess.dir, Target, op.compress, outcome)
          /\ faults' = IF outcome # "raises" THEN faults ELSE faults + 1
          /\ pc' = IF outcome # "raises" THEN "zipped" ELSE "raised"
          /\ last' = [op |-> "to_zip", arg |-> Target, ok |-> outcome # "raises",
                      ret |-> "", ext |-> <<>>]
    /\ UNCHANGED <<sess, scene, mats, images, conv, op>>

\* return {'FINISHED'}: the local s goes out of scope and __del__ runs
ExecuteFinished ==
    /\ \/ pc = "saved" /\ ~op.zip
       \/ pc = "zipped"
    /\ Dropped
    /\ pc' = "closed"
    /\ op' = [op EXCEPT !.result = "FINISHED"]
    /\ last' = [op |-> "__del__", arg |-> sess.dir, ok |-> TRUE, ret |-> "FINISHED",
                ext |-> <<>>]
    /\ UNCHANGED faults

\* an exception left execute; __del__ runs once the traceback lets go of s
ExecuteRaised ==
    /\ pc = "raised"
    /\ Dropped
    /\ pc' = "closed"
    /\ op' = [op EXCEPT !.result = "ERROR"]
    /\ last' = [op |-> "__del__", arg |-> sess.dir, ok |-> TRUE, ret |-> "ERROR",
                ext |-> <<>>]
    /\ UNCHANGED faults

(***************************************************************************)
(* Specifications                                                          *)
(***************************************************************************)
TargetFs(t) == [p \in Paths |-> IF p = Target THEN t ELSE Absent]

\* the state TungstenScene(self_contained=sc) leaves, for a target in targets
InitSession(targets) ==
    /\ \E sc \in BOOLEAN, t \in targets :
          /\ fs = InitFs(TargetFs(t), FALSE)
          /\ sess = NewSession("api", TRUE, sc, FALSE)
    /\ scene = NewScene
    /\ mats = EmptyDict
    /\ images = EmptyDict
    /\ conv = NoConversions
    /\ last = NoCall
    /\ faults = 0
    /\ calls = 0
    /\ pc = "idle"
    /\ op = OperatorDefaults

\* one more method call on the session
Call(A) == calls < MaxCalls /\ A /\ calls' = calls + 1

\* Spec: every method of a session, MaxCalls calls deep; add_all on scenes of
\* several objects is left to SpecPopulate
Init == InitSession({Absent, [kind |-> "dir", files |-> {UserFile}, data |-> NoData]})

Next ==
    \/ \E im \in Images : \E f \in {NoFault} \cup FaultsOfImage(im) : Call(AddImage(im, f))
    \/ \E m \in Materials : \E f \in {NoFault} \cup FaultsOfMaterial(m) : Call(AddMaterial(m, f))
    \/ \E o \in Objects : \E f \in {NoFault} \cup FaultsOfObject(o) : Call(AddObject(o, f))
    \/ \E o \in MeshObjects, n \in MeshNames : \E f \in {NoFault, <<"mesh", o.id>>} :
          Call(AddMesh(o, n, f))
    \/ \E f \in {NoFault, <<"world", worldSky.id>>} : Call(AddWorld(worldSky, f))
    \/ \E hs \in CameraScenes : Call(AddCamera(hs))
    \/ \E hs \in SmallScenes : \E f \in {NoFault} \cup FaultsOfScene(hs) : Call(AddAll(hs, f))
    \/ Call(Save)
    \/ \E c \in BOOLEAN : Call(ToZip(Target, c))

Spec == Init /\ [][Next]_vars

\* SpecObjects: objects and materials of one session, to any depth
InitObjects == InitSession({Absent})

\* SpecObjects goes to any depth on the objects with names of their own and
\* the materials with fragments of their own keys; the second cube and the
\* material that retypes a record are left to Spec
DeepMaterials == Materials \ {matD}

DeepObjects == Objects \ {objCube_lib, objQuad}

NextObjects ==
    \/ \E m \in DeepMaterials : \E f \in {NoFault} \cup FaultsOfMaterial(m) :
          AddMaterial(m, f) /\ UNCHANGED calls
    \/ \E o \in DeepObjects : \E f \in {NoFault} \cup FaultsOfObject(o) :
          AddObject(o, f) /\ UNCHANGED calls

SpecObjects == InitObjects /\ [][NextObjects]_vars

\* SpecImages: images and materials of one session, to any depth
NextImages ==
    \/ \E im \in Images : \E f \in {NoFault} \cup FaultsOfImage(im) :
          AddImage(im, f) /\ UNCHANGED calls
    \/ \E m \in Materials : \E f \in {NoFault} \cup FaultsOfMaterial(m) :
          AddMaterial(m, f) /\ UNCHANGED calls

SpecImages == InitObjects /\ [][NextImages]_vars

\* SpecPopulate: add_all on one session, MaxCalls times
NextPopulate ==
    \E hs \in HostScenes : \E f \in {NoFault} \cup FaultsOfScene(hs) : Call(AddAll(hs, f))

SpecPopulate == InitObjects /\ [][NextPopulate]_vars

\* what may lie in the directory a caller hands to TungstenScene(path=...)
CallerTrees == {Absent,
                [kind |-> "dir", files |-> {UserFile}, data |-> NoData],
                [kind |-> "dir", files |-> {UserFile, OldDir, OldFile, OldEmptyDir},
                 data |-> NoData],
                [kind |-> "dir", files |-> {OldDir, OldFile, DeadLink}, data |-> NoData]}

\* a caller that follows the lifecycle: populate right after construction,
\* persist after that, drop the session at any point
Populate(hs, fault) == last.op = "__init__" /\ AddAll(hs, fault)

Persist == last.op \in {"__init__", "add_all"} /\ Save

\* archive the working directory once the manifest is saved
Pack(compress) == last.op = "save" /\ last.ok /\ ToZip(ArchivePath, compress)

\* SpecArchive: a session in a temporary or a caller's directory is populated,
\* saved and archived
InitArchive ==
    /\ \E sc, usePath \in BOOLEAN, t \in CallerTrees :
          /\ ~usePath => t = Absent
          /\ fs = InitFs(TargetFs(t), usePath)
          /\ sess = NewSession("api", TRUE, sc, usePath)
          /\ last = [op |-> "__init__", arg |-> IF usePath THEN Target ELSE "None",
                     ok |-> TRUE, ret |-> "", ext |-> <<>>]
    /\ scene = NewScene
    /\ mats = EmptyDict
    /\ images = EmptyDict
    /\ conv = NoConversions
    /\ faults = 0
    /\ calls = 0
    /\ pc = "idle"
    /\ op = OperatorDefaults

NextArchive ==
    \/ \E hs \in SmallScenes : \E f \in {NoFault} \cup FaultsOfScene(hs) :
          Populate(hs, f) /\ UNCHANGED calls
    \/ Persist /\ UNCHANGED calls
    \/ \E c \in BOOLEAN : Pack(c) /\ UNCHANGED calls

SpecArchive == InitArchive /\ [][NextArchive]_vars

\* SpecExport: the export operator and the life of a session
InitExport ==
    /\ \E t \in TargetStates : fs = TargetFs(t)
    /\ sess = NoSession
    /\ scene = NewScene
    /\ mats = EmptyDict
    /\ images = EmptyDict
    /\ conv = NoConversions
    /\ last = NoCall
    /\ faults = 0
    /\ calls = 0
    /\ pc = "idle"
    /\ op = OperatorDefaults

NextExport ==
    \/ \E c, sc, p \in BOOLEAN : Construct(c, sc, p) /\ UNCHANGED calls
    \/ \E hs \in HostScenes : \E f \in {NoFault} \cup FaultsOfScene(hs) : Call(Populate(hs, f))
    \/ Call(Persist)
    \/ Del /\ UNCHANGED calls
    \/ \E z, sc, c \in BOOLEAN : ExecuteCancelled(z, sc, c) /\ UNCHANGED calls
    \/ \E z, sc, c \in BOOLEAN : ExecuteConstruct(z, sc, c) /\ UNCHANGED calls
    \/ \E hs \in HostScenes : \E f \in {NoFault} \cup FaultsOfScene(hs) :
          ExecuteAddAll(hs, f) /\ UNCHANGED calls
    \/ ExecuteSave /\ UNCHANGED calls
    \/ ExecuteToZip /\ UNCHANGED calls
    \/ ExecuteFinished /\ UNCHANGED calls
    \/ ExecuteRaised /\ UNCHANGED calls

SpecExport == InitExport /\ [][NextExport]_vars

(***************************************************************************)
(* Properties                                                              *)
(***************************************************************************)
MaterialOf(id) == CHOOSE m \in Materials : m.id = id

ImageOf(id) == CHOOSE im \in Images : im.id = id

ObjectOf(id) == CHOOSE o \in Objects : o.id = id

\* the name of the material in slot 0 of the object a record was made from
SlotName(p) ==
    LET o == CHOOSE x \in Objects : x.name = p.name
    IN  IF Len(o.material_slots) > 0 /\ o.material_slots[1] # NoMaterial
        THEN o.material_slots[1].name ELSE "none"

\* positions of the object records whose object uses the material called n
PrimsOf(n) ==
    {i \in DOMAIN scene.primitives :
        LET p == scene.primitives[i]
        IN  "file" \in DOMAIN p /\ SlotName(p) = n}

\* positions of the bsdfs entries called n
BsdfsOf(n) == {i \in DOMAIN scene.bsdfs : i > 1 /\ scene.bsdfs[i].name = n}

\* the record p holds every field of the fragment
Carries(p, frag) == \A k \in DOMAIN frag : k \in DOMAIN p /\ p[k] = frag[k]

\* the converter returns a full record for the materials called n
HasFullRecord(n) == \A m \in Materials : m.name = n => m.kind = "surface"

IsPrefix(a, b) == Len(a) <= Len(b) /\ \A i \in DOMAIN a : a[i] = b[i]

\* C1 as stated: the converter is invoked at most once per material name, and
\* once an object using the name is exported there is exactly one bsdfs entry
\* for it and every such object record carries the cached fragment.
C1_Original ==
    \A n \in MatNames :
        /\ conv[n].calls <= 1
        /\ PrimsOf(n) # {} =>
              /\ Cardinality(BsdfsOf(n)) = 1
              /\ \A i \in PrimsOf(n) : Carries(scene.primitives[i], mats[n])

\* C1 amended: per material name the converter returns at most once and bsdfs
\* holds at most one entry; once an object using the name is exported the name
\* is cached, bsdfs holds exactly one entry for it when the converter returned
\* a full record and none when it returned None, and every such object record
\* carries the cached fragment.
C1_MaterialDedup ==
    \A n \in MatNames :
        /\ conv[n].returns <= 1
        /\ Cardinality(BsdfsOf(n)) <= 1
        /\ PrimsOf(n) # {} =>
              /\ n \in DOMAIN mats
              /\ Cardinality(BsdfsOf(n)) = (IF HasFullRecord(n) THEN 1 ELSE 0)
              /\ \A i \in PrimsOf(n) : Carries(scene.primitives[i], mats[n])

\* two objects with different datablocks of the same material name exported:
\* one bsdfs entry
C1_Witness ==
    /\ Cardinality(PrimsOf("A")) = 2
    /\ \E i, j \in PrimsOf("A") : scene.primitives[i].name # scene.primitives[j].name
    /\ Cardinality(BsdfsOf("A")) = 1
    /\ Len(scene.bsdfs) = 2

\* C2: a call of add_material or add_image for a name already in the cache
\* returns the cached value, changes neither the Document nor the caches nor
\* the filesystem, and calls no converter and saves no image.
C2_CacheHitNoEffect ==
    [][ /\ (last'.op = "add_material" /\ MaterialOf(last'.arg).name \in DOMAIN mats) =>
              /\ last'.ok /\ last'.ret = mats[MaterialOf(last'.arg).name]
              /\ last'.ext = <<>>
              /\ scene' = scene /\ mats' = mats /\ images' = images
              /\ fs' = fs /\ conv' = conv
        /\ (last'.op = "add_image" /\ ImageOf(last'.arg).name \in DOMAIN images) =>
              /\ last'.ok /\ last'.ret = images[ImageOf(last'.arg).name]
              /\ last'.ext = <<>>
              /\ scene' = scene /\ mats' = mats /\ images' = images
              /\ fs' = fs /\ conv' = conv
      ]_vars

\* the last call was add_material for a cached name (a miss calls the converter)
C2_Witness ==
    /\ last.op = "add_material" /\ last.ok /\ last.ext = <<>>
    /\ MaterialOf(last.arg).name \in DOMAIN mats
    /\ images # EmptyDict

\* C3: a call of add_material or add_image that raises leaves the name out of
\* the cache and adds nothing to bsdfs, and every call for a name that is not
\* cached runs the conversion (the converter, the image save) again.
C3_NoCachePoisoning ==
    [][ /\ (last'.op = "add_material" /\ ~last'.ok) =>
              /\ MaterialOf(last'.arg).name \notin DOMAIN mats'
              /\ scene'.bsdfs = scene.bsdfs
        /\ (last'.op = "add_image" /\ ~last'.ok) =>
              ImageOf(last'.arg).name \notin DOMAIN images'
        /\ (last'.op = "add_material" /\ MaterialOf(last'.arg).name \notin DOMAIN mats) =>
              /\ conv'[MaterialOf(last'.arg).name].calls
                    = conv[MaterialOf(last'.arg).name].calls + 1
              /\ last'.ext[1] = <<"convert_material", last'.arg>>
        /\ (last'.op = "add_image" /\ ImageOf(last'.arg).name \notin DOMAIN images) =>
              \/ /\ last'.ok /\ ~sess.self_contained
                 /\ ImageOf(last'.arg).filepath \in AssetFiles
                 /\ last'.ext = <<>>
              \/ /\ Len(last'.ext) = 1
                 /\ last'.ext[1][1] = "save_image" /\ last'.ext[1][2] = last'.arg
      ]_vars

\* a conversion that raised was run again and then cached
C3_Witness ==
    \E n \in MatNames :
        conv[n].calls = 2 /\ conv[n].returns = 1 /\ n \in DOMAIN mats /\ faults = 1

\* C4: while the session lives bsdfs is not empty and its first entry is the
\* default material record, and no step removes, moves or rewrites an entry
\* of bsdfs.
C4_DefaultFirstAppendOnly ==
    /\ [](sess.alive =>
            /\ Len(scene.bsdfs) >= 1
            /\ scene.bsdfs[1] = [name |-> "__default_mat", type |-> "lambert",
                                 albedo |-> "0.8"])
    /\ [][IsPrefix(scene.bsdfs, scene'.bsdfs)]_vars

\* two materials appended behind the default one
C4_Witness ==
    /\ Len(scene.bsdfs) = 3
    /\ scene.bsdfs[2].name # scene.bsdfs[3].name
    /\ calls = 2

\* the object the last call was about has no material in slot 0
NoSlotZero(o) == Len(o.material_slots) = 0 \/ o.material_slots[1] = NoMaterial

\* C5: add_object on an exported type without a material in slot 0 calls no
\* material converter and leaves bsdfs and the material cache alone, and when
\* it returns it has appended one record whose bsdf is the name of bsdfs[0].
C5_DefaultFallback ==
    [][ (/\ last'.op = "add_object"
         /\ ObjectOf(last'.arg).type \in {"MESH", "CURVE", "SURFACE", "META", "FONT"}
         /\ NoSlotZero(ObjectOf(last'.arg))) =>
            /\ scene'.bsdfs = scene.bsdfs /\ mats' = mats /\ conv' = conv
            /\ \A i \in DOMAIN last'.ext : last'.ext[i][1] # "convert_material"
            /\ last'.ok =>
                  /\ Len(scene'.primitives) = Len(scene.primitives) + 1
                  /\ IsPrefix(scene.primitives, scene'.primitives)
                  /\ scene'.primitives[Len(scene'.primitives)].name
                        = ObjectOf(last'.arg).name
                  /\ scene'.primitives[Len(scene'.primitives)].bsdf
                        = scene.bsdfs[1].name
      ]_vars

\* the object with an empty slot 0 and a material in slot 1 was exported
C5_Witness ==
    /\ last.op = "add_object" /\ last.arg = "objWire" /\ last.ok
    /\ scene.primitives[Len(scene.primitives)].name = "wire"
    /\ scene.primitives[Len(scene.primitives)].bsdf = "__default_mat"
    /\ "B" \notin DOMAIN mats

\* C6: add_object on a type outside MESH, CURVE, SURFACE, META, FONT changes
\* nothing and calls neither the mesh writer nor a converter; on one of the
\* five types it appends exactly one record when it returns.
C6_TypeFilter ==
    [][ last'.op = "add_object" =>
          IF ObjectOf(last'.arg).type \in {"MESH", "CURVE", "SURFACE", "META", "FONT"}
          THEN last'.ok =>
                  /\ Len(scene'.primitives) = Len(scene.primitives) + 1
                  /\ IsPrefix(scene.primitives, scene'.primitives)
                  /\ scene'.primitives[Len(scene'.primitives)].name
                        = ObjectOf(last'.arg).name
          ELSE /\ last'.ok /\ last'.ext = <<>>
               /\ scene' = scene /\ mats' = mats /\ images' = images
               /\ conv' = conv /\ fs' = fs
      ]_vars

\* a lamp with a material in slot 0 was passed after an object was exported
C6_Witness ==
    /\ last.op = "add_object" /\ last.arg = "objLamp"
    /\ Len(scene.primitives) = 1
    /\ "C" \notin DOMAIN mats
    /\ FileNames(fs[sess.dir].files) = {scene.primitives[1].file}

\* an uncached image in a renderer format whose source file exists
Referable(im) ==
    /\ im.name \notin DOMAIN images
    /\ im.file_format \in {"BMP", "PNG", "JPEG", "TARGA", "TARGA_RAW", "HDR"}
    /\ ImagePath(im) \in AssetFiles

NativeExt == [BMP |-> ".bmp", PNG |-> ".png", JPEG |-> ".jpg",
              TARGA |-> ".tga", TARGA_RAW |-> ".tga", HDR |-> ".hdr"]

\* the step wrote exactly the file dest, an image of im encoded as enc
WroteImage(im, dest, enc) ==
    /\ dest \notin FileNames(fs[sess.dir].files)
    /\ \E f \in fs'[sess.dir].files :
          /\ f.name = dest /\ f.content.kind = "image"
          /\ f.content.of = im.id /\ f.content.enc = enc
          /\ fs'[sess.dir].files = fs[sess.dir].files \cup {f}
    /\ \A p \in Paths \ {sess.dir} : fs'[p] = fs[p]

\* C7 as stated: for such an image a session that is not self-contained returns
\* the path of the existing file relative to the working directory and writes
\* nothing; a self-contained one writes <name><ext> in the native encoding.
C7_Original ==
    [][ (last'.op = "add_image" /\ Referable(ImageOf(last'.arg))) =>
          IF ~sess.self_contained
          THEN /\ last'.ok /\ fs' = fs
               /\ last'.ret = "../.." \o ImagePath(ImageOf(last'.arg))
          ELSE last'.ok =>
                  /\ last'.ret = ImageOf(last'.arg).name
                                    \o NativeExt[ImageOf(last'.arg).file_format]
                  /\ WroteImage(ImageOf(last'.arg), last'.ret,
                                ImageOf(last'.arg).file_format)
      ]_vars

\* C7 amended: the path returned by the session that is not self-contained is
\* relative to the working directory when the file is on the same filesystem
\* root and the absolute path of the file otherwise; the rest as stated.
C7_SelfContainedToggle ==
    [][ (last'.op = "add_image" /\ Referable(ImageOf(last'.arg))) =>
          IF ~sess.self_contained
          THEN /\ last'.ok /\ fs' = fs /\ last'.ext = <<>>
               /\ last'.ret = (IF ImageOf(last'.arg).drive = "C"
                               THEN "../.." \o ImagePath(ImageOf(last'.arg))
                               ELSE ImagePath(ImageOf(last'.arg)))
               /\ images' = Put(images, ImageOf(last'.arg).name, last'.ret)
          ELSE last'.ok =>
                  /\ last'.ret = ImageOf(last'.arg).name
                                    \o NativeExt[ImageOf(last'.arg).file_format]
                  /\ WroteImage(ImageOf(last'.arg), last'.ret,
                                ImageOf(last'.arg).file_format)
      ]_vars

\* both existing files were referenced, one by a relative and one by its
\* absolute path, and the working directory is still empty
C7_Witness ==
    /\ ~sess.self_contained
    /\ DOMAIN images = {"tex", "far"}
    /\ images["tex"] = "../../assets/tex.png"
    /\ images["far"] = "D:/far.jpg"
    /\ fs[sess.dir].files = {}

\* C8: add_image for an uncached image that cannot be referenced (format not
\* a renderer format, or no existing source file, or self-contained session)
\* writes, when it returns, exactly one file into the working directory and
\* returns and caches its name: <name><native extension> in the native
\* encoding for a renderer format, else <name>.png encoded as PNG.
C8_Materialize ==
    [][ (/\ last'.op = "add_image"
         /\ ImageOf(last'.arg).name \notin DOMAIN images
         /\ ~(Referable(ImageOf(last'.arg)) /\ ~sess.self_contained)
         /\ last'.ok) =>
          LET im == ImageOf(last'.arg)
              native == im.file_format \in DOMAIN NativeExt
              dest == IF native THEN im.name \o NativeExt[im.file_format]
                                ELSE im.name \o ".png"
          IN  /\ last'.ret = dest
              /\ images' = Put(images, im.name, dest)
              /\ WroteImage(im, dest, IF native THEN im.file_format ELSE "PNG")
      ]_vars

\* an EXR image was converted to PNG in a session that is not self-contained
C8_Witness ==
    /\ last.op = "add_image" /\ last.arg = "imgEnv" /\ last.ok
    /\ ~sess.self_contained
    /\ last.ret = "env.png"
    /\ \E f \in fs[sess.dir].files : f.name = "env.png" /\ f.content.enc = "PNG"

\* execute is entered: it either returns CANCELLED or constructs the session
ExecuteEntered ==
    /\ pc \in {"idle", "cancelled"} /\ ~sess.alive
    /\ pc' \in {"cancelled", "constructed"}

\* C9: when the target path exists and is not of the kind the mode needs (a
\* file when archiving, a directory when not) execute returns CANCELLED with
\* no session constructed and the filesystem untouched; in every other case
\* it goes on to construct the session.
C9_PathPrecondition ==
    [][ ExecuteEntered =>
          LET kind == fs[Target].kind
              wrong == kind # "absent" /\ (IF op'.zip THEN kind # "file" ELSE kind # "dir")
          IN  IF wrong
              THEN /\ pc' = "cancelled" /\ op'.result = "CANCELLED"
                   /\ ~sess'.alive /\ fs' = fs
                   /\ scene' = scene /\ mats' = mats /\ images' = images
              ELSE /\ pc' = "constructed" /\ op'.result = "none"
                   /\ sess'.alive /\ sess'.owner = "operator"
                   /\ fs'[sess'.dir].kind = "dir"
      ]_vars

\* an archive export onto an existing directory was cancelled; the directory
\* is as it was and no temporary directory exists
C9_Witness ==
    /\ pc = "cancelled" /\ op.result = "CANCELLED" /\ op.zip
    /\ fs[Target] = [kind |-> "dir", files |-> {UserFile}, data |-> NoData]
    /\ fs[TmpDir].kind = "absent"
    /\ ~sess.alive

\* the session is torn down in this step
Closing == sess.alive /\ last'.op = "__del__"

\* C10 as stated: teardown removes the working directory if and only if it is
\* the temporary directory the session made; a directory the caller supplied
\* stays as it is.
C10_Original ==
    [][ Closing =>
          IF sess.dir = "/tmp/tmpw"
          THEN fs' = [fs EXCEPT ![sess.dir] = [kind |-> "absent", files |-> {},
                                               data |-> [fmt |-> "none"]]]
          ELSE fs' = fs
      ]_vars

\* the manifest save writes for the document doc
Manifest(doc) == [kind |-> "manifest", doc |-> doc]

\* the archive at path p holds the manifest of doc
ArchivedManifest(p, doc) ==
    /\ fs[p].kind = "file" /\ fs[p].data.fmt = "zip"
    /\ [arcname |-> "scene.json", dir |-> FALSE, content |-> Manifest(doc)]
           \in fs[p].data.entries

\* a step of an export run of the operator
OperatorStep == sess.owner = "operator" \/ sess'.owner = "operator"

\* C11: in every run of the export operator the steps come in the order
\* construct, add_all, save, to_zip (archive mode only), teardown, each after
\* the one before it has returned; the teardown is the last step of the run,
\* happens once, is the only step that removes the temporary directory, and
\* in a run without error comes after save and to_zip, so the archive made
\* by a run holds the manifest of the populated document.
C11_LifecycleOrder ==
    /\ [][ OperatorStep =>
             /\ last.op # "__del__"
             /\ last'.op \in {"__init__", "add_all", "save", "to_zip", "__del__"}
             /\ last'.op = "__init__" => ~sess.alive
             /\ last'.op = "add_all" => last.op = "__init__"
             /\ last'.op = "save" => last.op = "add_all" /\ last.ok
             /\ last'.op = "to_zip" => op.zip /\ last.op = "save" /\ last.ok
             /\ last'.op = "__del__" =>
                   /\ sess.alive /\ ~sess'.alive
                   /\ last.ok => last.op = (IF op.zip THEN "to_zip" ELSE "save")
                   /\ sess.dir = TmpDir => fs'[TmpDir].kind = "absent"
                   /\ last.ok /\ op.zip => ArchivedManifest(Target, scene)
             /\ fs[TmpDir].kind = "dir" /\ fs'[TmpDir].kind # "dir" => last'.op = "__del__"
         ]_vars
    /\ [](pc = "zipped" => ArchivedManifest(Target, scene))

\* an archive export has finished: the archive holds the manifest with the
\* record of an object, and the temporary directory is gone
C11_Witness ==
    /\ pc = "closed" /\ op.result = "FINISHED" /\ op.zip
    /\ fs[TmpDir].kind = "absent"
    /\ \E m \in fs[Target].data.entries :
          /\ m.arcname = "scene.json"
          /\ Len(m.content.doc.primitives) > 0

\* no two world primitives and no two object records of the same name
NoDuplicatePrimitives ==
    \A i, j \in DOMAIN scene.primitives :
        i # j =>
            LET p == scene.primitives[i]
                q == scene.primitives[j]
            IN  /\ ~(p.type = "skydome" /\ q.type = "skydome")
                /\ "name" \in DOMAIN p /\ "name" \in DOMAIN q => p.name # q.name

\* C12 as stated: populate is single-use.  Once add_all has returned on a
\* session a further add_all on it is not performed (it is refused or changes
\* nothing), so primitives never holds two records of one host object or two
\* world primitives.
C12_Original ==
    /\ [][ last.op = "add_all" /\ last.ok /\ last'.op = "add_all" =>
             ~last'.ok \/ scene' = scene
         ]_vars
    /\ []NoDuplicatePrimitives

\* the 16 values of a 4x4 matrix, row after row
RowMajor(T) == [k \in 1..16 |-> T[((k - 1) \div 4) + 1][((k - 1) % 4) + 1]]

\* T with its X and Z columns negated
NegateXZ(T) == [i \in 1..4 |-> <<0 - T[i][1], T[i][2], 0 - T[i][3], T[i][4]>>]

Cameras == {o \in Objects : o.type = "CAMERA"}

\* C13: the camera record holds, row-major, the camera's world matrix with
\* its X and Z columns negated and the Y and translation columns as they are;
\* every object record holds, row-major, exactly the object's world matrix.
C13_TransformAsymmetry ==
    /\ DOMAIN scene.camera # {} =>
          \E c \in Cameras : scene.camera.transform = RowMajor(NegateXZ(c.matrix_world))
    /\ \A i \in DOMAIN scene.primitives :
          "name" \in DOMAIN scene.primitives[i] =>
              \E o \in Objects :
                  /\ o.name = scene.primitives[i].name
                  /\ scene.primitives[i].transform = RowMajor(o.matrix_world)

\* a camera and an object with the same rotated, scaled and shifted world
\* matrix were exported: the camera's values are flipped, the object's are not
C13_Witness ==
    /\ DOMAIN scene.camera # {}
    /\ scene.camera.transform = <<0, -1, 0, 2, -1, 0, 0, 3, 0, 0, -2, 5, 0, 0, 0, 1>>
    /\ \E i \in DOMAIN scene.primitives :
          /\ scene.primitives[i].type = "mesh"
          /\ scene.primitives[i].transform = <<0, -1, 0, 2, 1, 0, 0, 3, 0, 0, 2, 5, 0, 0, 0, 1>>

\* the file tree of a directory: every entry with its relative path
TreeListing(files) == {[path |-> EntryPath(e), content |-> e.content] : e \in files}

\* the paths of the subdirectories a caller's directory may hold
KnownDirs == {EntryPath(e) : e \in {OldDir, OldEmptyDir}}

\* the file tree extraction makes of an archive: a directory for every member
\* whose name ends in "/", a file with the member's content for every other
Extract(data) ==
    {IF m.dir
     THEN [path |-> CHOOSE p \in KnownDirs : p \o "/" = m.arcname,
           content |-> [kind |-> "directory"]]
     ELSE [path |-> m.arcname, content |-> m.content] : m \in data.entries}

\* to_zip has just returned on a session whose manifest was saved
Packed == last'.op = "to_zip" /\ last'.ok /\ last.op = "save"

Fresh == scene = NewScene /\ mats = EmptyDict /\ images = EmptyDict

\* the objects of a host scene that have geometry, in host order
Eligible(hs) == SelectSeq(hs.objects, LAMBDA o : o.type \in GeometryTypes)

\* the stages of add_all on a host scene, in the order stated
StagesOf(hs) ==
    <<  <<"convert_renderer", "scene">>, <<"convert_integrator", "scene">>  >>
    \o (IF hs.world # NoWorld THEN << <<"convert_world", hs.world.id>> >> ELSE <<>>)
    \o << <<"convert_camera", hs.camera.id>> >>
    \o [i \in 1..Len(Eligible(hs)) |->
           <<"write_mesh", Eligible(hs)[i].id, Eligible(hs)[i].name \o ".wo3">>]

\* the stage calls among the external calls of one method call
StageCalls(ext) ==
    SelectSeq(ext, LAMBDA c : c[1] \in {"convert_renderer", "convert_integrator",
                                        "convert_world", "convert_camera", "write_mesh"})

\* the world primitive, if any, then one record per object with geometry
PrimitivesOf(hs, prims) ==
    LET off == IF hs.world # NoWorld THEN 1 ELSE 0
    IN  /\ Len(prims) = off + Len(Eligible(hs))
        /\ off = 1 => prims[1] = [type |-> "skydome", emission |-> hs.world.color]
        /\ \A i \in 1..Len(Eligible(hs)) :
              /\ "name" \in DOMAIN prims[off + i]
              /\ prims[off + i].name = Eligible(hs)[i].name
              /\ prims[off + i].type = "mesh"

\* C15: one add_all call on a fresh session performs the renderer merge, the
\* integrator merge, the world conversion (only if the scene has a world),
\* the camera build and then add_object for every host object in host order,
\* in this order (a call that raises stops somewhere along it); after a call
\* that returns, primitives is the world primitive (if any) followed by one
\* record per eligible object in host order, and the camera was set once.
C15_StageOrder ==
    [][ Fresh /\ last'.op = "add_all" =>
          /\ IsPrefix(StageCalls(last'.ext), StagesOf(last'.hs))
          /\ \A k \in 1..Len(last'.ext) :
                last'.ext[k][1] \in {"convert_material", "save_image"} =>
                    \E j \in 1..(k - 1) : last'.ext[j][1] = "write_mesh"
          /\ last'.ok =>
                /\ StageCalls(last'.ext) = StagesOf(last'.hs)
                /\ PrimitivesOf(last'.hs, scene'.primitives)
                /\ scene'.renderer = Update(scene.renderer, last'.hs.render.renderer)
                /\ scene'.integrator = Update(scene.integrator, last'.hs.render.integrator)
                /\ Cardinality({k \in 1..Len(last'.ext) :
                                   last'.ext[k][1] = "convert_camera"}) = 1
                /\ DOMAIN scene'.camera # {}
      ]_vars

\* the first add_all of a session has returned for a scene with a world, a
\* lamp and a cube: the sky and the cube are the primitives
C15_Witness ==
    /\ last.op = "add_all" /\ last.ok /\ calls = 1
    /\ last.hs.world = worldSky
    /\ last.hs.objects = <<objLamp, objCube>>
    /\ Len(scene.primitives) = 2
    /\ scene.primitives[1].type = "skydome"
    /\ scene.primitives[2].name = "cube"

\* new holds every key of the converter's output with the converter's value
\* and every other key of old with its old value, and no further key
Merged(old, out, new) ==
    /\ DOMAIN new = DOMAIN old \cup DOMAIN out
    /\ \A k \in DOMAIN out : new[k] = out[k]
    /\ \A k \in DOMAIN old \ DOMAIN out : new[k] = old[k]

\* C16: after add_all the renderer record holds every key the renderer
\* converter returned with the converter's value, plus each seeded default
\* (output_file "scene.png", overwrite_output_files true,
\* enable_resume_render false, checkpoint_interval 0) whose key the converter
\* did not return; on a key in both the converter's value wins.  The
\* integrator record is the integrator converter's output merged the same way.
C16_SettingsMerge ==
    [][ last'.op = "add_all" =>
          /\ Merged(scene.renderer, last'.hs.render.renderer, scene'.renderer)
          /\ Merged(scene.integrator, last'.hs.render.integrator, scene'.integrator)
          /\ Fresh =>
                /\ scene'.integrator = last'.hs.render.integrator
                /\ \A k \in {"output_file", "overwrite_output_files",
                               "enable_resume_render", "checkpoint_interval"} :
                      /\ k \in DOMAIN scene'.renderer
                      /\ k \notin DOMAIN last'.hs.render.renderer =>
                            scene'.renderer[k] =
                               [output_file |-> "scene.png", overwrite_output_files |-> TRUE,
                                enable_resume_render |-> FALSE, checkpoint_interval |-> 0][k]
      ]_vars

\* add_all has merged a converter output that sets spp and output_file: the
\* converter's output_file has replaced the default, the other defaults stay
C16_Witness ==
    /\ last.op = "add_all" /\ last.ok
    /\ last.hs.render.renderer = [spp |-> 32, output_file |-> "final.png"]
    /\ scene.renderer = [spp |-> 32, output_file |-> "final.png",
                          overwrite_output_files |-> TRUE,
                          enable_resume_render |-> FALSE, checkpoint_interval |-> 0]
    /\ scene.integrator = [type |-> "path_tracer"]

\* the names of the files in the working directory
WorkFiles(f) == {EntryPath(e) : e \in f[sess.dir].files}

\* the mesh writes among the external calls of one method call
MeshWrites(ext) == SelectSeq(ext, LAMBDA c : c[1] = "write_mesh")

\* the add_all step has raised in the mesh writer, the material converter or
\* an image save, that is while an object was processed
FailedInObject ==
    /\ last'.op = "add_all" /\ ~last'.ok
    /\ last'.ext # <<>>
    /\ last'.ext[Len(last'.ext)][1] \in {"write_mesh", "convert_material", "save_image"}

\* C17: if the mesh writer, the material converter or an image save fails
\* while add_all is processing some object, the error leaves add_all without
\* retry, no later object is processed, no record for the failing object is
\* appended to primitives, and every record and file produced before the
\* failure remains in the Document and the working directory.
C17_FailureAborts ==
    [][ FailedInObject =>
          LET hs == last'.hs
              ext == last'.ext
              n == Len(MeshWrites(ext))
              off == IF hs.world # NoWorld THEN 1 ELSE 0
              old == Len(scene.primitives)
          IN  /\ n >= 1 /\ n <= Len(Eligible(hs))
              \* the failing call was made once and nothing was called after it
              /\ Cardinality({k \in 1..Len(ext) : ext[k] = ext[Len(ext)]}) = 1
              \* the objects up to the failing one had their mesh written, no later one
              /\ \A i \in 1..n : MeshWrites(ext)[i][2] = Eligible(hs)[i].id
              \* records of the objects before the failing one, none for it
              /\ Len(scene'.primitives) = old + off + (n - 1)
              /\ \A i \in 1..(n - 1) :
                    scene'.primitives[old + off + i].name = Eligible(hs)[i].name
              /\ \A i \in n..Len(Eligible(hs)) :
                    \A k \in (old + 1)..Len(scene'.primitives) :
                        "name" \in DOMAIN scene'.primitives[k] =>
                            scene'.primitives[k].name # Eligible(hs)[i].name
              \* what was there before and what was produced before the failure stays
              /\ IsPrefix(scene.primitives, scene'.primitives)
              /\ IsPrefix(scene.bsdfs, scene'.bsdfs)
              /\ WorkFiles(fs) \subseteq WorkFiles(fs')
              /\ \A i \in 1..(n - 1) :
                    Eligible(hs)[i].name \o ".wo3" \in WorkFiles(fs')
              /\ \A k \in DOMAIN mats : k \in DOMAIN mats' /\ mats'[k] = mats[k]
              /\ \A k \in DOMAIN images : k \in DOMAIN images' /\ images'[k] = images[k]
      ]_vars

\* add_all on a text and a cube has raised in the cube's material or image:
\* the text has its record and its mesh file, the cube its mesh file only
C17_Witness ==
    /\ last.op = "add_all" /\ ~last.ok
    /\ last.hs.objects = <<objText, objCube>>
    /\ last.ext[Len(last.ext)][1] \in {"convert_material", "save_image"}
    /\ Len(scene.primitives) >= 1
    /\ scene.primitives[Len(scene.primitives)].name = "text"
    /\ {"text.wo3", "cube.wo3"} \subseteq WorkFiles(fs)

\* add_all has returned a second time in a row for the same host scene
Repeated ==
    /\ last.op = "add_all" /\ last.ok
    /\ last'.op = "add_all" /\ last'.ok
    /\ last'.hs = last.hs

\* C18: a second add_all on the same session with the same host scene appends
\* a second copy of the world primitive and of every eligible object's record
\* to primitives and rewrites every mesh file, but appends nothing to bsdfs,
\* writes no image file and leaves both caches unchanged.
C18_RepeatedAddAll ==
    [][ Repeated =>
          LET hs == last'.hs
              k == (IF hs.world # NoWorld THEN 1 ELSE 0) + Len(Eligible(hs))
              n == Len(scene.primitives)
          IN  /\ n >= k
              /\ scene'.primitives = scene.primitives \o SubSeq(scene.primitives, n - k + 1, n)
              /\ StageCalls(last'.ext) = StagesOf(hs)
              /\ \A i \in 1..Len(Eligible(hs)) :
                    Eligible(hs)[i].name \o ".wo3" \in WorkFiles(fs')
              /\ scene'.bsdfs = scene.bsdfs
              /\ mats' = mats
              /\ images' = images
              /\ conv' = conv
              /\ \A j \in 1..Len(last'.ext) :
                    last'.ext[j][1] \notin {"save_image", "convert_material"}
              /\ fs' = fs
      ]_vars

\* add_all has returned twice for a scene of one ball with a textured
\* material: two ball records, one entry for the material in bsdfs
C18_Witness ==
    /\ last.op = "add_all" /\ last.ok /\ calls = 2
    /\ last.hs.objects = <<objBall>> /\ last.hs.world = NoWorld
    /\ Len(scene.primitives) = 2
    /\ scene.primitives[1] = scene.primitives[2]
    /\ scene.primitives[1].name = "ball"
    /\ Len(scene.bsdfs) = 2
    /\ DOMAIN mats # {} /\ DOMAIN images # {}
    /\ \E j \in 1..Len(last.ext) : last.ext[j][1] = "write_mesh"

\* the names of the members of the archive at path p
MemberNames(p) == {m.arcname : m \in fs[p].data.entries}

\* C19 as stated: whenever the export operator has produced an archive, every
\* image path in the archived manifest (every value of the image cache) names
\* a file contained in the archive, for every combination of the
\* self_contained and zip options.
C19_Original ==
    pc = "zipped" =>
        /\ ArchivedManifest(Target, scene)
        /\ \A n \in DOMAIN images : images[n] \in MemberNames(Target)

\* the positions of the object records in a primitives list
ObjectRecords(prims) == {i \in DOMAIN prims : "name" \in DOMAIN prims[i]}

\* the record p was made from the object o: name, type, file and transform
\* are the ones computed from o
RecordOf(p, o) ==
    /\ p.name = o.name
    /\ p.type = "mesh"
    /\ p.file = o.name \o ".wo3"
    /\ p.transform = RowMajor(o.matrix_world)
    /\ "bsdf" \in DOMAIN p

\* the working directory holds the mesh file the mesh writer wrote for o
MeshWrittenIn(f, o) ==
    \E e \in f[sess.dir].files :
        /\ EntryPath(e) = o.name \o ".wo3"
        /\ e.content = [kind |-> "mesh", of |-> o.id]

MeshWritten(o) == MeshWrittenIn(fs, o)

\* each step that appends an object record has called the mesh writer for
\* the record's object and file and has left that object's mesh in the file
WrittenBeforeAppended ==
    \A i \in ObjectRecords(scene'.primitives) :
        i > Len(scene.primitives) =>
            \E k \in 1..Len(last'.ext) :
                /\ last'.ext[k][1] = "write_mesh"
                /\ last'.ext[k][3] = scene'.primitives[i].file
                /\ ObjectOf(last'.ext[k][2]).name = scene'.primitives[i].name
                /\ MeshWrittenIn(fs', ObjectOf(last'.ext[k][2]))

\* C20 as stated: in every reachable state each object record in primitives
\* has a file field '<object-name>.wo3' that names a mesh file the mesh writer
\* wrote into the working directory for that object before the record was
\* appended, and its name, type, file and transform are the ones computed
\* from the object: the material reference fragment merged into the record
\* replaces none of them.
C20_Original ==
    /\ [](\A i \in ObjectRecords(scene.primitives) :
             \E o \in Objects : /\ o.type \in GeometryTypes
                                /\ RecordOf(scene.primitives[i], o)
                                /\ MeshWritten(o))
    /\ [][WrittenBeforeAppended]_vars

====
